---------------------------- MODULE Spec2Model ----------------------------
(***************************************************************************)
(* A model of the Ticketmaster Discovery API client of the event ticket    *)
(* scraper: the rate limiter (RateLimiter.wait), the request routine with  *)
(* retry on 429 (EventTicketScraper._api_request) and the two search       *)
(* paginators (_search_events, _search_venues).                            *)
(*                                                                         *)
(* Time is counted in whole seconds of the event loop's clock.             *)
(***************************************************************************)
EXTENDS Integers, Sequences, FiniteSets, TLC

(***************************************************************************)
(* Bounds of the model.                                                    *)
(***************************************************************************)
\* concurrent tasks sharing one RateLimiter
NumCallers == 3
\* largest request_interval_secs tried (the field allows 0.2 .. 5.0)
MaxInterval == 2
\* the clock may drift this far by itself; sleeps move it further
MaxTime == 3
\* a task calls wait() again only while fewer marks than this were recorded
MaxMarks == 2

\* every max_results up to this one is tried against the arbitrary provider
MaxSmallCap == 2

\* at most this many of the seven search filters of a config are not ""
MaxSetFilters == 2
\* scraper.run() yields at most this many records to main()
MaxRecords == 60
\* the _api_request calls of a run of main() are counted up to this number
MaxNetRequests == 2
\* a provider object has at most this many nested fields missing or null
MaxOddFields == 2
\* a provider object has at most this many images
MaxImages == 3
\* an event object has at most this many classification entries
MaxClassifications == 2

(***************************************************************************)
(* Program constants.                                                      *)
(***************************************************************************)
MAX_RETRIES == 3
BACKOFF_SECS == <<5, 15, 30>>
TM_PAGE_SIZE == 200
TM_DEEP_PAGE_LIMIT == 1000
\* ScraperInput.max_results: Field(ge=1, le=1000)
MAX_RESULTS_GE == 1
MAX_RESULTS_LE == 1000
\* main.py
FREE_TIER_LIMIT == 25
BATCH_SIZE == 25

Max(a, b) == IF a >= b THEN a ELSE b
Min(a, b) == IF a <= b THEN a ELSE b

Callers == 1..NumCallers
\* the task that runs the scraper (one logical task drives the pipeline)
ApiTask == 1
NoCaller == 0

VARIABLES
    \* ---- the event loop and the RateLimiter
    now,            \* asyncio.get_running_loop().time()
    interval,       \* RateLimiter._interval
    last_request,   \* RateLimiter._last_request
    lockHolder,     \* RateLimiter._lock: the task holding it, or NoCaller
    lockWaiters,    \* RateLimiter._lock: the tasks waiting for it, in order
    lpc,            \* where each task is inside wait()
    wakeAt,         \* the clock value at which a task's asyncio.sleep ends
    marks,          \* history: the values assigned to _last_request, in order
    entered,        \* history: the tasks in the order they took the lock
    \* ---- one call of _api_request
    apc,            \* position inside _api_request
    attempt,        \* the loop variable of "for attempt in range(...)"
    responses,      \* history: what each HTTP attempt of the call received
    sleeps,         \* history: the backoff sleeps of the call (seconds)
    getMarks,       \* history: Len(marks) when each HTTP GET was issued
    result,         \* what the call returned
    endpoint,       \* the argument endpoint
    params,         \* the dict params, from line 80 on
    sent,           \* history: the url and the params of each HTTP GET
    \* ---- one run of a search paginator (_search_events, _search_venues)
    mode,           \* config.mode
    max_results,    \* config.max_results
    total_yielded,  \* the local total_yielded
    page,           \* the local page
    ppc,            \* position inside the generator
    stop,           \* how the generator ended
    request,        \* the page request issued last (history once answered)
    n_requests,     \* history: the number of page requests issued
    yielded,        \* history: the provider result behind each yielded record
    reply,          \* history: status and _embedded keys of the reply to request
    firstItems,     \* history: the number of items the reply to page 0 carried
    provider,       \* how the provider answers: "list" or "any"
    providerTotal,
  \* the length of the provider's ordered result list
    twin,           \* a run of _search_venues beside the paginator, fed the same outcomes
    \* ---- one run of main()
    config,         \* the ScraperInput built from the actor input
    is_at_home,     \* APIFY_IS_AT_HOME is "1" or "true"
    is_paying,      \* APIFY_USER_IS_PAYING is "1" or "true"
    persisted,      \* state["total_pushed"] as the run found it
    mpc,            \* position inside main()
    validation_error, \* the local validation_error
    failed,         \* the message given to Actor.fail, or NoError
    main_max_results, \* the local max_results of main()
    total_pushed,   \* the local total_pushed
    state_total_pushed, \* state["total_pushed"]
    batch,          \* the local batch
    dataset,        \* the records pushed to the dataset, in order
    pushes,         \* history: the number of records of each push_data call
    produced,       \* history: the number of records scraper.run() has yielded
    net_requests,   \* history: the number of _api_request calls of the run
    \* ---- one run of _get_event
    gpc,            \* position inside the generator
    event_id,       \* the local event_id
    body,           \* the event object of the response body, once parsed
    looked,         \* history: the records the generator yielded
    api_calls,      \* history: the number of _api_request calls it made
    \* ---- one call of a normalizer (_event_to_record, _venue_to_record)
    npc,            \* "call", "returned" or "raised"
    raw,            \* the provider object passed in
    record          \* the record returned

limVars == <<now, interval, last_request, lockHolder, lockWaiters, lpc, wakeAt,
             marks, entered>>
apiVars == <<apc, attempt, responses, sleeps, getMarks, result, endpoint, params, sent>>
pagVars == <<mode, max_results, total_yielded, page, ppc, stop, request, n_requests, yielded, reply,
             firstItems, provider, providerTotal, twin>>
mainVars == <<config, is_at_home, is_paying, persisted, mpc, validation_error, failed,
              main_max_results, total_pushed, state_total_pushed, batch, dataset,
              pushes, produced, net_requests>>
lookVars == <<gpc, event_id, body, looked, api_calls>>
normVars == <<npc, raw, record>>
vars == <<limVars, apiVars, pagVars, mainVars, lookVars, normVars>>

(***************************************************************************)
(* RateLimiter                                                             *)
(***************************************************************************)
RateLimiterInit ==
    /\ now = 0
    /\ interval \in 1..MaxInterval
    /\ last_request = 0
    /\ lockHolder = NoCaller
    /\ lockWaiters = <<>>
    /\ lpc = [c \in Callers |-> "idle"]
    /\ wakeAt = [c \in Callers |-> 0]
    /\ marks = <<>>
    /\ entered = <<>>

\* (a limiter that forgot its lock: every caller walks straight in)
LockFree_NoLock == TRUE

\* (a lock that a newcomer takes whenever it is unlocked, waiters or not)
LockFree_Barging == lockHolder = NoCaller

\* asyncio.Lock.acquire takes the lock at once only when it is unlocked and
\* nobody is queued for it
LockFree == lockHolder = NoCaller /\ lockWaiters = <<>>

\* the argument of asyncio.sleep in wait()
SleepFor(elapsed) == interval - elapsed

\* Lines 42-45, run by task c right after it took the lock: read the clock and
\* either start sleeping or go on to the assignment of line 46.
EnterCritical(c) ==
    LET elapsed == now - last_request
    IN  /\ lockHolder' = c
        /\ entered' = Append(entered, c)
        /\ IF elapsed < interval
           THEN /\ lpc' = [lpc EXCEPT ![c] = "sleeping"]
                /\ wakeAt' = [wakeAt EXCEPT ![c] = now + SleepFor(elapsed)]
           ELSE /\ lpc' = [lpc EXCEPT ![c] = "mark"]
                /\ UNCHANGED wakeAt

\* Task c calls wait(): "async with self._lock" takes the lock or queues.
WaitCall(c) ==
    /\ lpc[c] = "idle"
    /\ IF LockFree
       THEN /\ EnterCritical(c)
            /\ UNCHANGED lockWaiters
       ELSE /\ lockWaiters' = Append(lockWaiters, c)
            /\ lpc' = [lpc EXCEPT ![c] = "queued"]
            /\ UNCHANGED <<lockHolder, wakeAt, entered>>
    /\ UNCHANGED <<now, interval, last_request, marks>>

\* The released lock wakes its first waiter, which then runs lines 42-45.
LockGrant(c) ==
    /\ lpc[c] = "queued"
    /\ lockHolder = NoCaller
    /\ lockWaiters # <<>>
    /\ Head(lockWaiters) = c
    /\ lockWaiters' = Tail(lockWaiters)
    /\ EnterCritical(c)
    /\ UNCHANGED <<now, interval, last_request, marks>>

\* asyncio.sleep of line 45 ends: the clock has reached the wake-up time.
WaitWake(c) ==
    /\ lpc[c] = "sleeping"
    /\ now' = Max(now, wakeAt[c])
    /\ lpc' = [lpc EXCEPT ![c] = "mark"]
    /\ UNCHANGED <<interval, last_request, lockHolder, lockWaiters, wakeAt,
                   marks, entered>>

\* Line 46 and the end of the "async with" block: record the clock as the
\* last-request mark and release the lock; wait() returns.
WaitMark(c) ==
    /\ lpc[c] = "mark"
    /\ last_request' = now
    /\ marks' = Append(marks, now)
    /\ lockHolder' = NoCaller
    /\ lpc' = [lpc EXCEPT ![c] = "returned"]
    /\ UNCHANGED <<now, interval, lockWaiters, wakeAt, entered>>

\* The clock advances by itself.
Tick ==
    /\ now < MaxTime
    /\ now' = now + 1
    /\ UNCHANGED <<interval, last_request, lockHolder, lockWaiters, lpc, wakeAt,
                   marks, entered>>

\* A task whose wait() returned calls it again later.
CallerAgain(c) ==
    /\ lpc[c] = "returned"
    /\ Len(marks) < MaxMarks
    /\ lpc' = [lpc EXCEPT ![c] = "idle"]
    /\ UNCHANGED <<now, interval, last_request, lockHolder, lockWaiters, wakeAt,
                   marks, entered>>

(***************************************************************************)
(* EventTicketScraper._api_request                                         *)
(***************************************************************************)
\* What one HTTP attempt can end with: httpx raises HTTPError (a connection
\* error, a timeout), or the server answers with a status and, on 429,
\* possibly a Retry-After header.
NoHeader == "<absent>"
RetryAfterValues == {NoHeader, "", "soon", "0", "7"}
Statuses == {200, 404, 500, 401, 400, 429}
TransportError == [kind |-> "error", status |-> 0, retry_after |-> NoHeader]
HttpResponse(st, ra) == [kind |-> "response", status |-> st, retry_after |-> ra]
Outcomes ==
    {TransportError}
        \cup {HttpResponse(st, NoHeader) : st \in Statuses \ {429}}
        \cup {HttpResponse(429, ra) : ra \in RetryAfterValues}

\* _api_request returns None
Failure == [kind |-> "failure", status |-> 0, retry_after |-> NoHeader]
NoResult == [kind |-> "none", status |-> 0, retry_after |-> NoHeader]

\* float(retry_after): the header texts of RetryAfterValues that Python parses
\* as a number, with their values; float() raises ValueError on the others
FloatParses(text) == text \in {"0", "7"}
FloatOf(text) == IF text = "7" THEN 7 ELSE 0

\* (a budget that is one retry short)
BudgetExhausted_OneShort(a) == a >= MAX_RETRIES - 1

\* line 115: the retry budget is used up
BudgetExhausted(a) == a >= MAX_RETRIES

\* (a schedule indexed by the number of fallbacks used so far)
WaitSecs_ByFallbacks(r, a) ==
    IF r.retry_after # NoHeader /\ r.retry_after # "" /\ FloatParses(r.retry_after)
    THEN FloatOf(r.retry_after)
    ELSE BACKOFF_SECS[1 + Cardinality({i \in 1..Len(sleeps) :
                                            ~FloatParses(responses[i].retry_after)})]

\* lines 122-129: the backoff after the 429 received on attempt a
WaitSecs(r, a) ==
    IF r.retry_after # NoHeader /\ r.retry_after # ""
    THEN IF FloatParses(r.retry_after)
         THEN FloatOf(r.retry_after)
         ELSE BACKOFF_SECS[a + 1]
    ELSE BACKOFF_SECS[a + 1]

\* (a client that takes a transport error for a throttled attempt)
FailsAtOnce_RetriesErrors(r) == r.status = 401 \/ r.status = 400

\* (a client that hands only a 200 back to its caller)
ReturnedAsIs_SuccessOnly(r) == r.kind = "response" /\ r.status = 200

\* lines 97-112: the statuses that end the call with None, and those returned
FailsAtOnce(r) == r.kind = "error" \/ r.status = 401 \/ r.status = 400
ReturnedAsIs(r) == r.kind = "response" /\ r.status \notin {401, 400, 429}

\* line 82: f"{_TM_BASE}/{endpoint}"
TM_BASE == "https://app.ticketmaster.com/discovery/v2"
Url(ep) == <<TM_BASE, "/", ep>>

\* a dict with no key
NoParams == [k \in {} |-> ""]

\* (a client that sends the caller's params as they came)
WithApiKey_Forgotten(p, key) == p

\* line 80: params["apikey"] = self._config.api_key
WithApiKey(p, key) ==
    [k \in DOMAIN p \cup {"apikey"} |-> IF k = "apikey" THEN key ELSE p[k]]

\* The calls the scraper makes: a search page, a page of a later request that
\* brings an apikey of its own, a lookup without params.
ApiCalls ==
    {[endpoint |-> "events.json",
      params |-> [size |-> "200", page |-> "0", keyword |-> "x"]],
     [endpoint |-> "venues.json",
      params |-> [size |-> "1", page |-> "3", apikey |-> "other"]],
     [endpoint |-> "events/e1.json", params |-> NoParams]}

\* lines 78-82: the call has been entered with endpoint ep and params p
RequestInit(ep, p) ==
    /\ endpoint = ep
    /\ params = WithApiKey(p, config.api_key)
    /\ sent = <<>>
RequestIdle == RequestInit("", NoParams)

ApiInit ==
    /\ apc = "loop"
    /\ attempt = 0
    /\ responses = <<>>
    /\ sleeps = <<>>
    /\ getMarks = <<>>
    /\ result = NoResult

\* (a client that calls wait() before the first attempt only)
ApiLoop_WaitOnce ==
    /\ apc = "loop"
    /\ IF attempt = 0
       THEN /\ WaitCall(ApiTask)
            /\ apc' = "wait"
            /\ UNCHANGED result
       ELSE /\ apc' = "wait"
            /\ lpc' = [lpc EXCEPT ![ApiTask] = "returned"]
            /\ UNCHANGED <<now, interval, last_request, lockHolder, lockWaiters,
                           wakeAt, marks, entered, result>>
    /\ UNCHANGED <<attempt, responses, sleeps, getMarks, endpoint, params, sent>>

\* line 84-85: the head of the for loop; an attempt starts by calling wait().
\* Line 139 is the exit of a loop that ran out of attempts.
ApiLoop ==
    /\ apc = "loop"
    /\ IF attempt <= MAX_RETRIES
       THEN /\ WaitCall(ApiTask)
            /\ apc' = "wait"
            /\ UNCHANGED result
       ELSE /\ apc' = "returned"
            /\ result' = Failure
            /\ UNCHANGED limVars
    /\ UNCHANGED <<attempt, responses, sleeps, getMarks, endpoint, params, sent>>

\* lines 87-92: wait() has returned and the GET is sent.
ApiSend ==
    /\ apc = "wait"
    /\ lpc[ApiTask] = "returned"
    /\ lpc' = [lpc EXCEPT ![ApiTask] = "idle"]
    /\ getMarks' = Append(getMarks, Len(marks))
    /\ apc' = "get"
    /\ sent' = Append(sent, [url |-> Url(endpoint), params |-> params])
    /\ UNCHANGED <<now, interval, last_request, lockHolder, lockWaiters, wakeAt,
                   marks, entered>>
    /\ UNCHANGED <<attempt, responses, sleeps, result, endpoint, params>>

\* lines 93-137: the attempt ends with r, which is classified.
ApiReceive(r) ==
    /\ apc = "get"
    /\ responses' = Append(responses, r)
    /\ IF FailsAtOnce(r)
       THEN /\ apc' = "returned"
            /\ result' = Failure
            /\ UNCHANGED <<sleeps, wakeAt>>
       ELSE IF ReturnedAsIs(r)
       THEN /\ apc' = "returned"
            /\ result' = r
            /\ UNCHANGED <<sleeps, wakeAt>>
       ELSE IF BudgetExhausted(attempt)
       THEN /\ apc' = "returned"
            /\ result' = Failure
            /\ UNCHANGED <<sleeps, wakeAt>>
       ELSE /\ apc' = "sleep"
            /\ sleeps' = Append(sleeps, WaitSecs(r, attempt))
            /\ wakeAt' = [wakeAt EXCEPT ![ApiTask] = now + WaitSecs(r, attempt)]
            /\ UNCHANGED result
    /\ UNCHANGED <<now, interval, last_request, lockHolder, lockWaiters, lpc,
                   marks, entered>>
    /\ UNCHANGED <<attempt, getMarks, endpoint, params, sent>>

\* line 137 returns: asyncio.sleep(wait_secs) is over, the next attempt starts.
ApiBackoffDone ==
    /\ apc = "sleep"
    /\ now' = Max(now, wakeAt[ApiTask])
    /\ attempt' = attempt + 1
    /\ apc' = "loop"
    /\ UNCHANGED <<interval, last_request, lockHolder, lockWaiters, lpc, wakeAt,
                   marks, entered>>
    /\ UNCHANGED <<responses, sleeps, getMarks, result, endpoint, params, sent>>

(***************************************************************************)
(* The provider, as the paginators see it through _api_request             *)
(***************************************************************************)
\* The envelope of a page: {_embedded: {events|venues: [...]}, page:
\* {totalPages}}. "embedded" tells whether the _embedded key is there (and not
\* null) and which collection keys it holds; "items" is the list under the
\* key the endpoint serves; a missing page.totalPages reads as 0.
Collections == {"events", "venues"}
KeyOf(ep) == IF ep = "events.json" THEN "events" ELSE "venues"
OtherKey(key) == IF key = "events" THEN "venues" ELSE "events"

PageFailure ==
    [kind |-> "failure", status |-> 0, embedded |-> [present |-> FALSE, keys |-> {}],
     items |-> <<>>, total_pages |-> 0]
PageStatus(st) ==
    [kind |-> "response", status |-> st,
     embedded |-> [present |-> FALSE, keys |-> {}], items |-> <<>>, total_pages |-> 0]
PageBody(present, keys, items, tp) ==
    [kind |-> "response", status |-> 200,
     embedded |-> [present |-> present, keys |-> keys], items |-> items,
     total_pages |-> tp]
\* what is kept of a reply for the record: its status and _embedded keys
Envelope(resp) == [kind |-> resp.kind, status |-> resp.status, embedded |-> resp.embedded]
NoReply == [kind |-> "none", status |-> 0, embedded |-> [present |-> FALSE, keys |-> {}]]

\* the number of items of a reply; NoItems for a reply that is no page
NoItems == 0 - 1
ItemsCarried(resp) ==
    IF resp.kind = "response" /\ resp.status = 200 /\ resp.embedded.present
           /\ resp.embedded.keys # {}
    THEN Len(resp.items)
    ELSE NoItems

\* A page request: the endpoint, the query parameters size and page and, for
\* the record, the number of records yielded before it was issued.
PageRequest(ep, size, pg, before) ==
    [endpoint |-> ep, size |-> size, page |-> pg, before |-> before]
NoRequest == PageRequest("", 0, 0, 0)

CeilDiv(a, b) == (a + b - 1) \div b

\* The provider that serves a request (size s, page p) as the results
\* s*p .. s*p+s-1 of its ordered list of n results (numbered from 0), and
\* leaves _embedded out of a page without results.
ListReply(req, n) ==
    LET lo == req.size * req.page
        hi == Min(lo + req.size, n)
        items == [i \in 1..Max(hi - lo, 0) |-> lo + i - 1]
    IN  IF items = <<>>
        THEN PageBody(FALSE, {}, <<>>, CeilDiv(n, req.size))
        ELSE PageBody(TRUE, {KeyOf(req.endpoint)}, items, CeilDiv(n, req.size))

\* more pages than any page index the paginators reach
ManyPages == TM_DEEP_PAGE_LIMIT + 1
\* a result of the arbitrary provider carries no position
Anonymous == 0 - 1
AnonymousItems(n) == [i \in 1..n |-> Anonymous]

\* The provider that answers as it likes: a failed request, an error status,
\* a body without _embedded or without the collection key, or a page of any
\* length (shorter or longer than asked for) with any totalPages.
AnyReplies(req) ==
    LET key == KeyOf(req.endpoint)
        counts == {n \in {0, req.size - 1, req.size, req.size + 1} : n >= 0}
        pages == {0, req.page + 1, req.page + 2, ManyPages}
    IN  {PageFailure, PageStatus(404), PageStatus(500)}
            \cup {PageBody(FALSE, {}, <<>>, tp) : tp \in {0, ManyPages}}
            \cup {PageBody(TRUE, {}, <<>>, ManyPages),
                  PageBody(TRUE, {OtherKey(key)}, <<>>, ManyPages)}
            \cup {PageBody(TRUE, {key}, AnonymousItems(n), tp) :
                      n \in counts, tp \in pages}

Replies(req) ==
    IF provider = "list" THEN {ListReply(req, providerTotal)} ELSE AnyReplies(req)

(***************************************************************************)
(* EventTicketScraper._search_events and _search_venues                    *)
(***************************************************************************)
ProviderTotals == {0, 7, 250, 450, 1200}
CapChoices ==
    {c \in MAX_RESULTS_GE..MAX_RESULTS_LE :
        c <= MaxSmallCap \/ c \in {150, 400}}

\* lines 316-318: the locals of _search_venues when the generator starts,
\* with the endpoint, size and page of the request it issued last
VenuesStart ==
    [ppc |-> "loop", stop |-> "running", total_yielded |-> 0, page |-> 0,
     endpoint |-> "", size |-> 0, req_page |-> 0, n_requests |-> 0]
VenuesIdle == [VenuesStart EXCEPT !.ppc = "done", !.stop = "idle"]

PagerInit ==
    /\ mode \in {"search", "venues"}
    /\ provider \in {"list", "any"}
    /\ max_results \in MAX_RESULTS_GE..MAX_RESULTS_LE
    /\ provider = "any" => max_results \in CapChoices
    /\ providerTotal \in ProviderTotals
    /\ provider = "any" => providerTotal = 0
    /\ total_yielded = 0
    /\ page = 0
    /\ ppc = "loop"
    /\ stop = "running"
    /\ request = NoRequest
    /\ n_requests = 0
    /\ yielded = <<>>
    /\ reply = NoReply
    /\ firstItems = NoItems
    /\ twin = VenuesStart

\* no paginator runs
PagerIdle ==
    /\ mode = "search"
    /\ provider = "any"
    /\ max_results = MAX_RESULTS_GE
    /\ providerTotal = 0
    /\ total_yielded = 0
    /\ page = 0
    /\ ppc = "done"
    /\ stop = "idle"
    /\ request = NoRequest
    /\ n_requests = 0
    /\ yielded = <<>>
    /\ reply = NoReply
    /\ firstItems = NoItems
    /\ twin = VenuesIdle

\* the generator ends
Finish(why) == ppc' = "done" /\ stop' = why

\* ---- _search_events
\* (a page size that forgets the remaining cap)
EventsPageSize_Fixed(remaining) == TM_PAGE_SIZE

\* line 181
EventsPageSize(remaining) == Min(TM_PAGE_SIZE, remaining)
\* (a guard that lets the request at the ceiling itself through)
EventsDeepPaging_Late(page_size, pg) == page_size * pg > TM_DEEP_PAGE_LIMIT

\* (a paginator without the deep-paging guard)
EventsDeepPaging_Never(page_size, pg) == FALSE

\* line 184
EventsDeepPaging(page_size, pg) == page_size * pg >= TM_DEEP_PAGE_LIMIT
\* line 227: _api_request returned None
EventsRequestFailed(resp) == resp.kind = "failure"
\* (a status check that lets client errors through to the body parser)
EventsBadStatus_ServerErrorsOnly(resp) == resp.status >= 500

\* line 230
EventsBadStatus(resp) == resp.status # 200
\* (a check that looks for _embedded only, not for the collection in it)
EventsNoResults_AnyEmbedded(resp) == ~(resp.embedded.present /\ resp.embedded.keys # {})

\* line 242
EventsNoResults(resp) ==
    ~(resp.embedded.present /\ resp.embedded.keys # {})
        \/ "events" \notin resp.embedded.keys
\* (a for loop without its cap check)
EventsCapReached_Never(total) == FALSE

\* line 259: the cap check at the head of each iteration of the for loop
EventsCapReached(total) == total >= max_results
\* line 270
EventsNoMorePages(pg, total_pages) == pg >= total_pages

\* lines 258-264: the for loop over the n_items events of a page. Each
\* iteration that passes the check of line 259 yields one record, so the i-th
\* iteration finds total + (i - 1) records yielded; the loop stops at the first
\* iteration whose check holds (the return of line 260), or runs through. The
\* number of records yielded in all, and whether line 260 returned.
EventsLoop(n_items, total) ==
    LET stops == {i \in 1..n_items : EventsCapReached(total + (i - 1))}
        first == CHOOSE i \in stops : \A k \in stops : i <= k
    IN  IF stops = {}
        THEN [total |-> total + n_items, returned |-> FALSE]
        ELSE [total |-> total + (first - 1), returned |-> TRUE]

\* lines 178-195 and 226: the head of the while loop up to the request.
SearchEventsLoop ==
    /\ mode = "search"
    /\ ppc = "loop"
    /\ IF total_yielded < max_results
       THEN LET remaining == max_results - total_yielded
                page_size == EventsPageSize(remaining)
            IN  IF EventsDeepPaging(page_size, page)
                THEN Finish("deep_paging") /\ UNCHANGED <<request, n_requests, reply>>
                ELSE /\ request' =
                            PageRequest("events.json", page_size, page, total_yielded)
                     /\ n_requests' = n_requests + 1
                     /\ reply' = NoReply
                     /\ ppc' = "await"
                     /\ UNCHANGED stop
       ELSE Finish("cap") /\ UNCHANGED <<request, n_requests, reply>>
    /\ UNCHANGED <<mode, max_results, total_yielded, page, yielded, firstItems,
                   provider, providerTotal>>

\* lines 227-271: _api_request has returned resp; the rest of the iteration.
SearchEventsPage(resp) ==
    /\ mode = "search"
    /\ ppc = "await"
    /\ reply' = Envelope(resp)
    /\ firstItems' = IF page = 0 THEN ItemsCarried(resp) ELSE firstItems
    /\ IF EventsRequestFailed(resp)
       THEN Finish("failed") /\ UNCHANGED <<total_yielded, page, yielded>>
       ELSE IF EventsBadStatus(resp)
       THEN Finish("bad_status") /\ UNCHANGED <<total_yielded, page, yielded>>
       ELSE IF EventsNoResults(resp)
       THEN Finish("no_results") /\ UNCHANGED <<total_yielded, page, yielded>>
       ELSE LET events == resp.items
                loop == EventsLoop(Len(events), total_yielded)
            IN  /\ total_yielded' = loop.total
                /\ yielded' = yielded \o SubSeq(events, 1, loop.total - total_yielded)
                /\ IF loop.returned
                   THEN Finish("cap") /\ UNCHANGED page
                   ELSE /\ page' = page + 1
                        /\ IF EventsNoMorePages(page + 1, resp.total_pages)
                           THEN Finish("no_more_pages")
                           ELSE ppc' = "loop" /\ UNCHANGED stop
    /\ UNCHANGED <<mode, max_results, request, n_requests, provider, providerTotal>>

\* ---- _search_venues
\* (a page size that forgets the remaining cap)
VenuesPageSize_Fixed(remaining) == TM_PAGE_SIZE

\* line 330
VenuesPageSize(remaining) == Min(TM_PAGE_SIZE, remaining)
\* line 332
VenuesDeepPaging(page_size, pg) == page_size * pg >= TM_DEEP_PAGE_LIMIT
\* line 358: _api_request returned None
VenuesRequestFailed(resp) == resp.kind = "failure"
\* line 361
VenuesBadStatus(resp) == resp.status # 200
\* line 371
VenuesNoResults(resp) ==
    ~(resp.embedded.present /\ resp.embedded.keys # {})
        \/ "venues" \notin resp.embedded.keys
\* line 388
VenuesCapReached(total) == total >= max_results
\* (a paginator that asks for one page more than there are)
VenuesNoMorePages_Late(pg, total_pages) == pg > total_pages

\* line 397
VenuesNoMorePages(pg, total_pages) == pg >= total_pages

\* lines 387-393: the for loop over the n_items venues of a page, as above
VenuesLoop(n_items, total) ==
    LET stops == {i \in 1..n_items : VenuesCapReached(total + (i - 1))}
        first == CHOOSE i \in stops : \A k \in stops : i <= k
    IN  IF stops = {}
        THEN [total |-> total + n_items, returned |-> FALSE]
        ELSE [total |-> total + (first - 1), returned |-> TRUE]

\* lines 328-339 and 357
SearchVenuesLoop ==
    /\ mode = "venues"
    /\ ppc = "loop"
    /\ IF total_yielded < max_results
       THEN LET remaining == max_results - total_yielded
                page_size == VenuesPageSize(remaining)
            IN  IF VenuesDeepPaging(page_size, page)
                THEN Finish("deep_paging") /\ UNCHANGED <<request, n_requests, reply>>
                ELSE /\ request' =
                            PageRequest("venues.json", page_size, page, total_yielded)
                     /\ n_requests' = n_requests + 1
                     /\ reply' = NoReply
                     /\ ppc' = "await"
                     /\ UNCHANGED stop
       ELSE Finish("cap") /\ UNCHANGED <<request, n_requests, reply>>
    /\ UNCHANGED <<mode, max_results, total_yielded, page, yielded, firstItems,
                   provider, providerTotal>>

\* lines 358-398
SearchVenuesPage(resp) ==
    /\ mode = "venues"
    /\ ppc = "await"
    /\ reply' = Envelope(resp)
    /\ firstItems' = IF page = 0 THEN ItemsCarried(resp) ELSE firstItems
    /\ IF VenuesRequestFailed(resp)
       THEN Finish("failed") /\ UNCHANGED <<total_yielded, page, yielded>>
       ELSE IF VenuesBadStatus(resp)
       THEN Finish("bad_status") /\ UNCHANGED <<total_yielded, page, yielded>>
       ELSE IF VenuesNoResults(resp)
       THEN Finish("no_results") /\ UNCHANGED <<total_yielded, page, yielded>>
       ELSE LET venues == resp.items
                loop == VenuesLoop(Len(venues), total_yielded)
            IN  /\ total_yielded' = loop.total
                /\ yielded' = yielded \o SubSeq(venues, 1, loop.total - total_yielded)
                /\ IF loop.returned
                   THEN Finish("cap") /\ UNCHANGED page
                   ELSE /\ page' = page + 1
                        /\ IF VenuesNoMorePages(page + 1, resp.total_pages)
                           THEN Finish("no_more_pages")
                           ELSE ppc' = "loop" /\ UNCHANGED stop
    /\ UNCHANGED <<mode, max_results, request, n_requests, provider, providerTotal>>

\* ---- _search_venues as a function of its locals
\* the generator ends
VenuesFinish(t, why) == [t EXCEPT !.ppc = "done", !.stop = why]

\* lines 328-339 and 357
SearchVenuesLoopOf(t) ==
    IF t.ppc # "loop"
    THEN t
    ELSE IF t.total_yielded < max_results
    THEN LET remaining == max_results - t.total_yielded
             page_size == VenuesPageSize(remaining)
         IN  IF VenuesDeepPaging(page_size, t.page)
             THEN VenuesFinish(t, "deep_paging")
             ELSE [t EXCEPT !.ppc = "await", !.endpoint = "venues.json",
                            !.size = page_size, !.req_page = t.page,
                            !.n_requests = @ + 1]
    ELSE VenuesFinish(t, "cap")

\* lines 358-398
SearchVenuesPageOf(t, resp) ==
    IF t.ppc # "await"
    THEN t
    ELSE IF VenuesRequestFailed(resp)
    THEN VenuesFinish(t, "failed")
    ELSE IF VenuesBadStatus(resp)
    THEN VenuesFinish(t, "bad_status")
    ELSE IF VenuesNoResults(resp)
    THEN VenuesFinish(t, "no_results")
    ELSE LET loop == VenuesLoop(Len(resp.items), t.total_yielded)
         IN  IF loop.returned
             THEN VenuesFinish([t EXCEPT !.total_yielded = loop.total], "cap")
             ELSE IF VenuesNoMorePages(t.page + 1, resp.total_pages)
             THEN VenuesFinish([t EXCEPT !.total_yielded = loop.total,
                                         !.page = t.page + 1], "no_more_pages")
             ELSE [t EXCEPT !.total_yielded = loop.total, !.page = t.page + 1,
                            !.ppc = "loop"]

\* The outcome the venues endpoint gives where the events endpoint gave resp:
\* the same failure, status, item count and totalPages, with the collection
\* keys of _embedded named the other way round.
Mirror(resp) ==
    [resp EXCEPT !.embedded.keys = {OtherKey(key) : key \in @}]

(***************************************************************************)
(* ScraperInput                                                            *)
(***************************************************************************)
\* Python strings are sequences of characters. str.strip() removes the
\* leading and the trailing whitespace.
Whitespace == {" ", "\t", "\n"}
Strip(text) ==
    LET kept == {i \in 1..Len(text) : text[i] \notin Whitespace}
    IN  IF kept = {}
        THEN <<>>
        ELSE SubSeq(text,
                    CHOOSE i \in kept : \A j \in kept : i <= j,
                    CHOOSE i \in kept : \A j \in kept : i >= j)
\* bool(text)
Truthy(text) == text # <<>>

KeyTexts == {<<>>, <<" ">>, <<" ", "k", " ">>}
IdTexts == {<<>>, <<"\t", " ">>, <<" ", "e", "1", " ">>, <<"z">>}
FilterTexts == {<<>>, <<" ">>, <<"x">>}
Modes == {"search", "get_event", "venues", "lookup"}
Units == {"miles", "km", "feet"}
\* max_results: Field(default=100)
DefaultMaxResults == 100

SetFilters(c) ==
    {f \in {"keyword", "city", "state_code", "country_code", "postal_code",
            "latlong", "classification_name"} : c[f] # <<>>}

Configs ==
    {c \in [api_key : KeyTexts, mode : Modes, event_id : IdTexts, unit : Units,
            keyword : FilterTexts, city : FilterTexts, state_code : FilterTexts,
            country_code : FilterTexts, postal_code : FilterTexts,
            latlong : FilterTexts, classification_name : FilterTexts,
            max_results : {DefaultMaxResults}] :
        Cardinality(SetFilters(c)) <= MaxSetFilters}

\* validate_input() returns None, or one of five messages
NoError == "<None>"
NotEvaluated == "<unset>"

\* (a test that takes whitespace for content)
Blank_NoStrip(text) == ~Truthy(text)

\* "not text.strip()"
Blank(text) == ~Truthy(Strip(text))

\* lines 72-103
ValidateInput(c) ==
    IF Blank(c.api_key)
    THEN "Ticketmaster API key is required."
    ELSE IF c.mode \notin {"search", "get_event", "venues"}
    THEN "Invalid mode."
    ELSE IF c.mode = "get_event" /\ Blank(c.event_id)
    THEN "Event ID is required for 'get_event' mode."
    ELSE IF c.mode = "search"
            /\ ~(\/ ~Blank(c.keyword)
                 \/ ~Blank(c.city)
                 \/ ~Blank(c.state_code)
                 \/ ~Blank(c.country_code)
                 \/ ~Blank(c.postal_code)
                 \/ ~Blank(c.latlong)
                 \/ ~Blank(c.classification_name))
    THEN "Provide at least one search filter."
    ELSE IF c.unit \notin {"miles", "km"}
    THEN "Invalid unit."
    ELSE NoError

(***************************************************************************)
(* main()                                                                  *)
(***************************************************************************)
\* The configs of the runs of main(): one or no filter, the caps around the
\* batch size and the free-tier limit.
MainCaps == {MAX_RESULTS_GE, BATCH_SIZE - 1, BATCH_SIZE, BATCH_SIZE + 1, MaxRecords}
MainConfigs ==
    [api_key : {<<>>, <<"k">>}, mode : Modes, event_id : {<<>>, <<"e">>},
     unit : {"miles", "feet"},
     keyword : {<<>>, <<"x">>}, city : {<<>>}, state_code : {<<>>},
     country_code : {<<>>}, postal_code : {<<>>}, latlong : {<<>>},
     classification_name : {<<>>},
     max_results : MainCaps]
IdleConfig ==
    [api_key |-> <<>>, mode |-> "search", event_id |-> <<>>, unit |-> "miles",
     keyword |-> <<>>, city |-> <<>>, state_code |-> <<>>, country_code |-> <<>>,
     postal_code |-> <<>>, latlong |-> <<>>, classification_name |-> <<>>,
     max_results |-> DefaultMaxResults]
PersistedChoices == {0, 10}

\* lines 59-60, 83-84: the dataset as a restarted run finds it. The run that
\* left state["total_pushed"] = n had pushed the first n records of the
\* sequence scraper.run() yields (records are numbered by their position in
\* that sequence).
SinkBefore(n) == [i \in 1..n |-> i]

\* (a slice that keeps the whole list)
SliceTo_Whole(list, n) == list

\* list[:n]
SliceTo(list, n) ==
    IF n >= 0
    THEN SubSeq(list, 1, Min(n, Len(list)))
    ELSE SubSeq(list, 1, Max(0, Len(list) + n))

\* (a run that goes on with an invalid config)
ValidationFails_Never(err) == FALSE

\* line 33: "if validation_error:"
ValidationFails(err) == err # NoError

\* (a run that forgets the free tier)
ResultLimit_Unreduced(c, at_home, paying) == c.max_results

\* lines 42-44
ResultLimit(c, at_home, paying) ==
    IF at_home /\ ~paying THEN Min(c.max_results, FREE_TIER_LIMIT) ELSE c.max_results

\* The records scraper.run() can yield for a config: the paginators stop at
\* config.max_results (scraper.py lines 178, 259, 328, 388), _get_event yields
\* at most once (lines 288-307).
YieldBound(c) == IF c.mode = "get_event" THEN 1 ELSE c.max_results

\* main() at the position pc with nothing done yet
MainState(c, at_home, paying, pushed_before, pc) ==
    /\ config = c
    /\ is_at_home = at_home
    /\ is_paying = paying
    /\ persisted = pushed_before
    /\ mpc = pc
    /\ validation_error = NotEvaluated
    /\ failed = NoError
    /\ main_max_results = 0
    /\ total_pushed = 0
    /\ state_total_pushed = pushed_before
    /\ batch = <<>>
    /\ dataset = <<>>
    /\ pushes = <<>>
    /\ produced = 0
    /\ net_requests = 0

MainInit ==
    \E c \in MainConfigs, at_home \in BOOLEAN, paying \in BOOLEAN,
       pushed_before \in PersistedChoices :
        MainState(c, at_home, paying, pushed_before, "start")

MainIdle == MainState(IdleConfig, FALSE, FALSE, 0, "idle")

\* lines 32-37: validate_input() is evaluated; an error fails the run.
MainValidate ==
    /\ mpc = "start"
    /\ validation_error' = ValidateInput(config)
    /\ IF ValidationFails(ValidateInput(config))
       THEN /\ failed' = ValidateInput(config)
            /\ mpc' = "failed"
       ELSE /\ mpc' = "limit"
            /\ UNCHANGED failed
    /\ UNCHANGED <<config, is_at_home, is_paying, persisted, main_max_results,
                   total_pushed, state_total_pushed, batch, dataset, pushes,
                   produced, net_requests>>

\* lines 40-62: the result limit, the dataset, the persisted state.
MainSetUp ==
    /\ mpc = "limit"
    /\ main_max_results' = ResultLimit(config, is_at_home, is_paying)
    /\ total_pushed' = state_total_pushed
    /\ batch' = <<>>
    /\ mpc' = "pull"
    /\ UNCHANGED <<config, is_at_home, is_paying, persisted, validation_error,
                   failed, state_total_pushed, dataset, pushes, produced,
                   net_requests>>

\* (a sink that takes every flush twice)
Push_Twice(flush) ==
    /\ dataset' = dataset \o flush \o flush
    /\ pushes' = Append(pushes, Len(flush))
    /\ total_pushed' = total_pushed + Len(flush)
    /\ state_total_pushed' = total_pushed + Len(flush)

\* lines 82-84 and 104-106: push_data(flush) and the counter
Push(flush) ==
    /\ dataset' = dataset \o flush
    /\ pushes' = Append(pushes, Len(flush))
    /\ total_pushed' = total_pushed + Len(flush)
    /\ state_total_pushed' = total_pushed + Len(flush)

\* lines 70-98: "async for record in scraper.run()" asks the generator for its
\* next record. The generator, resumed, may call _api_request (it does before
\* its first record) and then yields a record or ends; a yielded record goes
\* through one iteration of the loop body.
MainPull(ends, calls) ==
    /\ mpc = "pull"
    /\ calls \in {0, 1}
    /\ produced = 0 => calls = 1
    /\ calls = 1 => net_requests < MaxNetRequests
    /\ net_requests' = net_requests + calls
    /\ IF ends
       THEN /\ mpc' = "flush"
            /\ UNCHANGED <<produced, batch, dataset, pushes, total_pushed, state_total_pushed>>
       ELSE /\ produced < Min(YieldBound(config), MaxRecords)
            /\ produced' = produced + 1
            /\ IF total_pushed >= main_max_results
               THEN /\ mpc' = "flush"
                    /\ UNCHANGED <<batch, dataset, pushes, total_pushed, state_total_pushed>>
               ELSE IF Len(batch) + 1 >= BATCH_SIZE
               THEN /\ Push(SliceTo(Append(batch, produced + 1),
                                    main_max_results - total_pushed))
                    /\ batch' = <<>>
                    /\ mpc' = IF total_pushed' >= main_max_results
                              THEN "flush" ELSE "pull"
               ELSE /\ batch' = Append(batch, produced + 1)
                    /\ UNCHANGED <<mpc, dataset, pushes, total_pushed, state_total_pushed>>
    /\ UNCHANGED <<config, is_at_home, is_paying, persisted, validation_error,
                   failed, main_max_results>>

\* lines 101-106: the remaining batch is flushed.
MainFlush ==
    /\ mpc = "flush"
    /\ IF batch # <<>> /\ total_pushed < main_max_results
       THEN Push(SliceTo(batch, main_max_results - total_pushed))
       ELSE UNCHANGED <<dataset, pushes, total_pushed, state_total_pushed>>
    /\ mpc' = "done"
    /\ UNCHANGED <<config, is_at_home, is_paying, persisted, validation_error,
                   failed, main_max_results, batch, produced, net_requests>>

(***************************************************************************)
(* _event_to_record, _venue_to_record                                      *)
(***************************************************************************)
\* A provider object is described by the state of each nested field the
\* normalizers read (the key is missing, its value is null, or it has a value
\* of the documented type), by its id and name, and by its list of images.
FieldStates == {"missing", "null", "present"}
EventFields ==
    {"dates", "start", "status", "priceRanges", "_embedded", "venues", "attractions",
     "classifications", "segment", "genre", "subGenre", "sales", "public", "presales",
     "promoter", "seatmap", "images", "location", "address", "city", "state",
     "country", "ticketLimit", "accessibility"}
VenueFields ==
    {"location", "address", "city", "state", "country", "generalInfo", "images",
     "upcomingEvents"}

\* a JSON null where a string is documented
NullText == <<"<null>">>
\* value or ""
OrEmpty(text) == IF text = NullText THEN <<>> ELSE text

Ratios == {"16_9", "3_2"}
Widths == {100, 400, 800}
Urls == {"", "a", "b"}
Images == [ratio : Ratios, width : Widths, url : Urls]
\* The names of a classification entry: the key is missing, null, or a text.
MissingText == <<"<missing>">>
Undefined == <<"U", "n", "d", "e", "f", "i", "n", "e", "d">>
ClassNames ==
    {MissingText, NullText, <<>>, Undefined,
     <<"u", "n", "d", "e", "f", "i", "n", "e", "d">>, <<"M", "u", "s", "i", "c">>}
Entry(segment, genre, subGenre) ==
    [segment |-> segment, genre |-> genre, subGenre |-> subGenre]
Entries == {Entry(seg, gen, sub) : seg \in ClassNames, gen \in ClassNames, sub \in ClassNames}
\* the entries that follow the first one
LaterEntries ==
    {Entry(Undefined, Undefined, Undefined),
     Entry(<<"F", "i", "l", "m">>, <<"F", "i", "l", "m">>, <<"F", "i", "l", "m">>)}
SampleClassifications ==
    << Entry(<<"M", "u", "s", "i", "c">>, <<"R", "o", "c", "k">>, <<"P", "o", "p">>) >>

\* (a normalizer that reads the last classification entry)
FirstEntry_Last(list) == list[Len(list)]

\* line 445: classifications[0]
FirstEntry(list) == list[1]

\* lines 449-458: x.get("name", "") or "", and "" for the placeholder
ClassificationName(container, name) ==
    LET got == IF name = MissingText THEN <<>> ELSE name
        text == IF container = "Given" THEN OrEmpty(got) ELSE <<>>
    IN  IF text = Undefined THEN <<>> ELSE text

SampleImages ==
    << [ratio |-> "16_9", width |-> 100, url |-> "a"],
       [ratio |-> "16_9", width |-> 800, url |-> "b"] >>

\* what dict.get(key, default) returned: None, the default ({} or []), or the
\* value the provider gave
Got(parent, st) ==
    IF parent = "Given"
    THEN CASE st = "missing" -> "Default"
           [] st = "null" -> "None"
           [] st = "present" -> "Given"
    ELSE "Default"
\* "x or {}"
OrDefault(v) == IF v = "None" THEN "Default" ELSE v
\* a string read from a container: the provider's text, or "" from a default
TextOf(container) == IF container = "Given" THEN <<"v">> ELSE <<>>

\* (a sort with the narrowest image first)
SortsBefore_Ascending(w1, w2) == w1 < w2

\* line 488: sorted(..., key=width, reverse=True) puts the wider image first
SortsBefore(w1, w2) == w1 > w2

\* lines 487-489: sorted() is stable, images of one width keep their order
SortedImages(images) ==
    LET n == Len(images)
        rank(i) == 1 + Cardinality({j \in 1..n :
                          \/ SortsBefore(images[j].width, images[i].width)
                          \/ images[j].width = images[i].width /\ j < i})
    IN  [k \in 1..n |-> images[CHOOSE i \in 1..n : rank(i) = k]]

\* lines 490-495
RECURSIVE PickImages(_, _, _)
PickImages(images, seen_ratios, image_urls) ==
    IF images = <<>>
    THEN image_urls
    ELSE LET img == Head(images)
         IN  IF img.url # "" /\ img.ratio \notin seen_ratios
             THEN PickImages(Tail(images), seen_ratios \cup {img.ratio},
                             Append(image_urls, img.url))
             ELSE PickImages(Tail(images), seen_ratios, image_urls)

\* lines 483-495
EventImages(o) ==
    IF o.shape["images"] = "present"
    THEN PickImages(SortedImages(o.images), {}, <<>>)
    ELSE <<>>

\* The containers _event_to_record reads, by the line that binds them.
EventGot(o) ==
    LET sh == o.shape
        dates == Got("Given", sh["dates"])                      \* 411
        embedded == Got("Given", sh["_embedded"])                \* 428
        venues == Got(embedded, sh["venues"])                    \* 429
        venue == IF venues = "Given" THEN "Given" ELSE "Default" \* 430
        classifications == Got("Given", sh["classifications"])   \* 440
        cls0 == IF classifications = "Given" THEN "Given" ELSE "Default"
        sales == Got("Given", sh["sales"])                       \* 461
    IN  [dates |-> dates,
         start |-> Got(dates, sh["start"]),                      \* 412
         status_data |-> Got(dates, sh["status"]),               \* 413
         price_ranges |-> Got("Given", sh["priceRanges"]),       \* 416
         embedded |-> embedded,
         venue |-> venue,
         venue_loc |-> Got(venue, sh["location"]),               \* 431
         attractions_data |-> Got(embedded, sh["attractions"]),  \* 434
         classifications |-> classifications,
         seg |-> Got(cls0, sh["segment"]),                       \* 446
         gen |-> Got(cls0, sh["genre"]),                         \* 447
         sub |-> Got(cls0, sh["subGenre"]),                      \* 448
         sales |-> sales,
         public_sale |-> Got(sales, sh["public"]),               \* 462
         presales_data |-> Got(sales, sh["presales"]),           \* 463
         promoter_data |-> Got("Given", sh["promoter"]),         \* 476
         seatmap |-> Got("Given", sh["seatmap"]),                \* 480
         images_data |-> Got("Given", sh["images"]),             \* 483
         venue_address_obj |-> Got(venue, sh["address"]),        \* 498
         venue_city_obj |-> Got(venue, sh["city"]),              \* 499
         venue_state_obj |-> Got(venue, sh["state"]),            \* 500
         venue_country_obj |-> Got(venue, sh["country"]),        \* 501
         ticket_limit |-> OrDefault(Got("Given", sh["ticketLimit"])),     \* 536
         accessibility |-> OrDefault(Got("Given", sh["accessibility"]))]  \* 537

\* _event_to_record raises AttributeError where it calls .get on None and
\* TypeError where it iterates over None; the lines that do so
EventRaises(o) ==
    LET g == EventGot(o)
    IN  \/ g.dates = "None"                 \* 412
        \/ g.embedded = "None"              \* 429
        \/ g.attractions_data = "None"      \* 435
        \/ g.seg = "None"                   \* 449
        \/ g.gen = "None"                   \* 450
        \/ g.sub = "None"                   \* 451
        \/ g.sales = "None"                 \* 462
        \/ g.presales_data = "None"         \* 465
        \/ g.promoter_data = "None"         \* 477
        \/ g.images_data = "None"           \* 487
        \/ g.start = "None"                 \* 507
        \/ g.status_data = "None"           \* 511
        \/ g.venue_city_obj = "None"        \* 517
        \/ g.venue_state_obj = "None"       \* 518
        \/ g.venue_country_obj = "None"     \* 519
        \/ g.venue_address_obj = "None"     \* 520
        \/ g.venue_loc = "None"             \* 522
        \/ g.public_sale = "None"           \* 528
        \/ g.seatmap = "None"               \* 532

NoRecord == [kind |-> "none"]

\* lines 503-540: the record, of which the model keeps one field per container
EventToRecord(o) ==
    LET g == EventGot(o)
    IN  [kind |-> "event",
         event_name |-> OrEmpty(o.name),
         event_id |-> OrEmpty(o.id),
         local_date |-> TextOf(g.start),
         status |-> TextOf(g.status_data),
         price_currency |-> TextOf(g.price_ranges),
         venue_name |-> TextOf(g.venue),
         venue_city |-> TextOf(g.venue_city_obj),
         venue_address |-> TextOf(g.venue_address_obj),
         attractions |-> IF g.attractions_data = "Given" THEN <<"v">> ELSE <<>>,
         segment |-> ClassificationName(g.seg, FirstEntry(o.classifications).segment),
         genre |-> ClassificationName(g.gen, FirstEntry(o.classifications).genre),
         sub_genre |-> ClassificationName(g.sub, FirstEntry(o.classifications).subGenre),
         public_sale_start |-> TextOf(g.public_sale),
         presales |-> IF g.presales_data = "Given" THEN <<"v">> ELSE <<>>,
         promoter |-> TextOf(g.promoter_data),
         seatmap_url |-> TextOf(g.seatmap),
         images |-> EventImages(o),
         ticket_limit |-> TextOf(g.ticket_limit),
         accessibility_info |-> TextOf(g.accessibility)]

\* lines 550-563
VenueGot(o) ==
    LET sh == o.shape
    IN  [location |-> Got("Given", sh["location"]),
         address |-> Got("Given", sh["address"]),
         city_obj |-> Got("Given", sh["city"]),
         state_obj |-> Got("Given", sh["state"]),
         country_obj |-> Got("Given", sh["country"]),
         general_info |-> Got("Given", sh["generalInfo"]),
         images_data |-> Got("Given", sh["images"]),
         upcoming |-> Got("Given", sh["upcomingEvents"])]

VenueRaises(o) ==
    LET g == VenueGot(o)
    IN  \/ g.images_data = "None"           \* 559
        \/ g.city_obj = "None"              \* 569
        \/ g.state_obj = "None"             \* 570
        \/ g.country_obj = "None"           \* 571
        \/ g.address = "None"               \* 572
        \/ g.location = "None"              \* 574
        \/ g.general_info = "None"          \* 577

\* line 559: the URLs of the images that have one, in the provider's order
VenueImages(o) ==
    IF o.shape["images"] = "present"
    THEN LET withUrl == SelectSeq(o.images, LAMBDA img : img.url # "")
         IN  [k \in 1..Len(withUrl) |-> withUrl[k].url]
    ELSE <<>>

\* lines 565-585
VenueToRecord(o) ==
    LET g == VenueGot(o)
    IN  [kind |-> "venue",
         venue_name |-> OrEmpty(o.name),
         venue_id |-> OrEmpty(o.id),
         city |-> TextOf(g.city_obj),
         state |-> TextOf(g.state_obj),
         country |-> TextOf(g.country_obj),
         address |-> TextOf(g.address),
         parking_detail |-> TextOf(g.general_info),
         upcoming_events_count |-> IF g.upcoming = "Given" THEN 1 ELSE 0,
         images |-> VenueImages(o)]

\* the sets of at most k elements of S
RECURSIVE SubsetsUpTo(_, _)
SubsetsUpTo(S, k) ==
    IF k = 0
    THEN {{}}
    ELSE LET smaller == SubsetsUpTo(S, k - 1)
         IN  smaller \cup {T \cup {x} : T \in smaller, x \in S}

\* an object whose fields in odd are missing or null as st says
Shape(fields, odd, st) == [f \in fields |-> IF f \in odd THEN st[f] ELSE "present"]
AllPresent(fields) == [f \in fields |-> "present"]
AllMissing(fields) == [f \in fields |-> "missing"]

Object(kind, id, name, shape, images) ==
    [kind |-> kind, id |-> id, name |-> name, shape |-> shape, images |-> images,
     classifications |-> SampleClassifications]
WithClassifications(o, list) == [o EXCEPT !.classifications = list]

\* The objects a normalizer is called on: every choice of at most MaxOddFields
\* nested fields missing or null, every list of at most MaxImages images, and
\* the object with nothing in it.
NormalizerInit ==
    /\ npc = "call"
    /\ record = NoRecord
    /\ \/ \E odd \in SubsetsUpTo(EventFields, MaxOddFields) :
            \E st \in [odd -> {"missing", "null"}] :
                raw = Object("event", <<"e", "1">>, <<"n">>,
                             Shape(EventFields, odd, st), SampleImages)
       \/ \E n \in 0..MaxImages :
            \E images \in [1..n -> Images] :
                raw = Object("event", <<"e", "1">>, <<"n">>,
                             AllPresent(EventFields), images)
       \/ \E first \in Entries, n \in 0..(MaxClassifications - 1) :
            \E later \in [1..n -> LaterEntries] :
                raw = WithClassifications(
                          Object("event", <<"e", "1">>, <<"n">>,
                                 AllPresent(EventFields), SampleImages),
                          <<first>> \o later)
       \/ \E first \in Entries, odd \in SubsetsUpTo({"segment", "genre", "subGenre"}, 1) :
            raw = WithClassifications(
                      Object("event", <<"e", "1">>, <<"n">>,
                             Shape(EventFields, odd, [f \in odd |-> "missing"]),
                             SampleImages),
                      <<first>>)
       \/ raw = Object("event", NullText, NullText, AllMissing(EventFields), <<>>)
       \/ \E odd \in SubsetsUpTo(VenueFields, MaxOddFields) :
            \E st \in [odd -> {"missing", "null"}] :
                raw = Object("venue", <<"v", "1">>, <<"n">>,
                             Shape(VenueFields, odd, st), SampleImages)
       \/ raw = Object("venue", NullText, NullText, AllMissing(VenueFields), <<>>)

NormalizerIdle ==
    /\ npc = "idle"
    /\ raw = Object("event", <<>>, <<>>, AllMissing(EventFields), <<>>)
    /\ record = NoRecord

\* _event_to_record(raw) returns or raises
EventToRecordCall ==
    /\ npc = "call"
    /\ raw.kind = "event"
    /\ IF EventRaises(raw)
       THEN npc' = "raised" /\ UNCHANGED record
       ELSE npc' = "returned" /\ record' = EventToRecord(raw)
    /\ UNCHANGED raw

\* _venue_to_record(raw) returns or raises
VenueToRecordCall ==
    /\ npc = "call"
    /\ raw.kind = "venue"
    /\ IF VenueRaises(raw)
       THEN npc' = "raised" /\ UNCHANGED record
       ELSE npc' = "returned" /\ record' = VenueToRecord(raw)
    /\ UNCHANGED raw

(***************************************************************************)
(* EventTicketScraper._get_event                                           *)
(***************************************************************************)
\* the configs validate_input lets through in mode get_event
LookupConfigs ==
    {c \in Configs :
        c.mode = "get_event" /\ SetFilters(c) = {} /\ ValidateInput(c) = NoError}

\* The event objects a 200 carries: nested fields present or left out, an id
\* that need not be the requested one.
LookupBodies ==
    {Object("event", id, name, sh, SampleImages) :
        id \in {<<"e", "1">>, <<"z">>}, name \in {<<"n">>, NullText},
        sh \in {AllPresent(EventFields), AllMissing(EventFields)}}
NoBody == Object("none", <<>>, <<>>, AllMissing(EventFields), <<>>)

\* line 284: f"events/{event_id}.json"
EventEndpoint(id) == <<"events/", id, ".json">>

\* f"Event not found: {event_id}"
NotFoundName(id) ==
    <<"E", "v", "e", "n", "t", " ", "n", "o", "t", " ", "f", "o", "u", "n", "d", ":", " ">> \o id

\* lines 290-294: EventRecord(event_name=..., event_id=...), the other fields
\* at their defaults
NotFoundRecord(id) ==
    [kind |-> "event", event_name |-> NotFoundName(id), event_id |-> id,
     local_date |-> <<>>, status |-> <<>>, price_currency |-> <<>>,
     venue_name |-> <<>>, venue_city |-> <<>>, venue_address |-> <<>>,
     attractions |-> <<>>, segment |-> <<>>, genre |-> <<>>, sub_genre |-> <<>>,
     public_sale_start |-> <<>>,
     presales |-> <<>>, promoter |-> <<>>, seatmap_url |-> <<>>, images |-> <<>>,
     ticket_limit |-> <<>>, accessibility_info |-> <<>>]

\* (a lookup that takes a 404 for any other error)
EventNotFound_Never(resp) == FALSE

\* line 288
EventNotFound(resp) == resp.status = 404

LookupInit ==
    /\ gpc = "start"
    /\ event_id = <<>>
    /\ body = NoBody
    /\ looked = <<>>
    /\ api_calls = 0

LookupIdle ==
    /\ gpc = "idle"
    /\ event_id = <<>>
    /\ body = NoBody
    /\ looked = <<>>
    /\ api_calls = 0

\* lines 281-284: the id is stripped and _api_request is called.
GetEventCall ==
    /\ gpc = "start"
    /\ event_id' = Strip(config.event_id)
    /\ api_calls' = api_calls + 1
    /\ gpc' = "await"
    /\ UNCHANGED <<body, looked>>

\* lines 285-307: _api_request has returned; b is the event object of a 200.
GetEventResume(b) ==
    /\ gpc = "await"
    /\ apc = "returned"
    /\ gpc' = "done"
    /\ IF result = Failure
       THEN UNCHANGED <<body, looked>>
       ELSE IF EventNotFound(result)
       THEN looked' = Append(looked, NotFoundRecord(event_id)) /\ UNCHANGED body
       ELSE IF result.status # 200
       THEN UNCHANGED <<body, looked>>
       ELSE /\ body' = b
            /\ looked' = Append(looked, EventToRecord(b))
    /\ UNCHANGED <<event_id, api_calls>>

(***************************************************************************)
(* Specifications                                                          *)
(***************************************************************************)
\* The RateLimiter shared by NumCallers concurrent tasks.
InitLimiter ==
    /\ RateLimiterInit /\ ApiInit /\ PagerIdle /\ MainIdle /\ LookupIdle /\ NormalizerIdle
    /\ RequestIdle

NextLimiter ==
    \/ \E c \in Callers : WaitCall(c) /\ UNCHANGED <<apiVars, pagVars, mainVars, lookVars, normVars>>
    \/ \E c \in Callers : LockGrant(c) /\ UNCHANGED <<apiVars, pagVars, mainVars, lookVars, normVars>>
    \/ \E c \in Callers : WaitWake(c) /\ UNCHANGED <<apiVars, pagVars, mainVars, lookVars, normVars>>
    \/ \E c \in Callers : WaitMark(c) /\ UNCHANGED <<apiVars, pagVars, mainVars, lookVars, normVars>>
    \/ \E c \in Callers : CallerAgain(c) /\ UNCHANGED <<apiVars, pagVars, mainVars, lookVars, normVars>>
    \/ Tick /\ UNCHANGED <<apiVars, pagVars, mainVars, lookVars, normVars>>

SpecLimiter == InitLimiter /\ [][NextLimiter]_vars

\* The same under the event loop's scheduling: a task that is ready to run (the
\* first waiter of a released lock, a task whose sleep is over, a task about
\* to leave the "async with" block) is run. Calling wait() is up to the caller.
LimiterProgress ==
    /\ \E c \in Callers : LockGrant(c) \/ WaitWake(c) \/ WaitMark(c)
    /\ UNCHANGED <<apiVars, pagVars, mainVars, lookVars, normVars>>

\* Of the callers the first one calls wait() again after it returned.
NextLimiterFair ==
    \/ \E c \in Callers : WaitCall(c) /\ UNCHANGED <<apiVars, pagVars, mainVars, lookVars, normVars>>
    \/ \E c \in Callers : LockGrant(c) /\ UNCHANGED <<apiVars, pagVars, mainVars, lookVars, normVars>>
    \/ \E c \in Callers : WaitWake(c) /\ UNCHANGED <<apiVars, pagVars, mainVars, lookVars, normVars>>
    \/ \E c \in Callers : WaitMark(c) /\ UNCHANGED <<apiVars, pagVars, mainVars, lookVars, normVars>>
    \/ CallerAgain(1) /\ UNCHANGED <<apiVars, pagVars, mainVars, lookVars, normVars>>
    \/ Tick /\ UNCHANGED <<apiVars, pagVars, mainVars, lookVars, normVars>>

SpecLimiterFair == InitLimiter /\ [][NextLimiterFair]_vars /\ WF_vars(LimiterProgress)

\* One call of _api_request by the scraper's task, the server answering each
\* attempt as it likes.
ApiConfigs == {[IdleConfig EXCEPT !.api_key = key] : key \in {<<"k">>, <<" ", "k", " ">>}}

InitApi ==
    /\ RateLimiterInit /\ ApiInit /\ PagerIdle /\ LookupIdle /\ NormalizerIdle
    /\ \E c \in ApiConfigs : MainState(c, FALSE, FALSE, 0, "idle")
    /\ \E call \in ApiCalls : RequestInit(call.endpoint, call.params)

NextApi ==
    \/ ApiLoop /\ UNCHANGED <<pagVars, mainVars, lookVars, normVars>>
    \/ WaitWake(ApiTask) /\ UNCHANGED <<apiVars, pagVars, mainVars, lookVars, normVars>>
    \/ WaitMark(ApiTask) /\ UNCHANGED <<apiVars, pagVars, mainVars, lookVars, normVars>>
    \/ ApiSend /\ UNCHANGED <<pagVars, mainVars, lookVars, normVars>>
    \/ (\E r \in Outcomes : ApiReceive(r)) /\ UNCHANGED <<pagVars, mainVars, lookVars, normVars>>
    \/ ApiBackoffDone /\ UNCHANGED <<pagVars, mainVars, lookVars, normVars>>
    \/ Tick /\ UNCHANGED <<apiVars, pagVars, mainVars, lookVars, normVars>>

SpecApi == InitApi /\ [][NextApi]_vars

\* One run of a search paginator against a provider; the paginator sees of
\* _api_request only what it returns.
InitPager ==
    /\ RateLimiterInit /\ interval = 1 /\ ApiInit /\ PagerInit
    /\ MainIdle /\ LookupIdle /\ NormalizerIdle
    /\ RequestIdle

NextPager ==
    \/ SearchEventsLoop
         /\ UNCHANGED <<twin, limVars, apiVars, mainVars, lookVars, normVars>>
    \/ /\ ppc = "await"
       /\ \E resp \in Replies(request) : SearchEventsPage(resp)
       /\ UNCHANGED <<twin, limVars, apiVars, mainVars, lookVars, normVars>>
    \/ SearchVenuesLoop
         /\ UNCHANGED <<twin, limVars, apiVars, mainVars, lookVars, normVars>>
    \/ /\ ppc = "await"
       /\ \E resp \in Replies(request) : SearchVenuesPage(resp)
       /\ UNCHANGED <<twin, limVars, apiVars, mainVars, lookVars, normVars>>

SpecPager == InitPager /\ [][NextPager]_vars

\* One run of a search paginator with a run of _search_venues beside it: each
\* step of the paginator is a step of the run beside it, and each reply given
\* to the paginator is given to the run beside it, as the venues endpoint
\* words it.
InitTwin == InitPager

NextTwin ==
    \/ /\ SearchEventsLoop
       /\ twin' = SearchVenuesLoopOf(twin)
       /\ UNCHANGED <<limVars, apiVars, mainVars, lookVars, normVars>>
    \/ /\ ppc = "await"
       /\ \E resp \in Replies(request) :
             SearchEventsPage(resp) /\ twin' = SearchVenuesPageOf(twin, Mirror(resp))
       /\ UNCHANGED <<limVars, apiVars, mainVars, lookVars, normVars>>
    \/ /\ SearchVenuesLoop
       /\ twin' = SearchVenuesLoopOf(twin)
       /\ UNCHANGED <<limVars, apiVars, mainVars, lookVars, normVars>>
    \/ /\ ppc = "await"
       /\ \E resp \in Replies(request) :
             SearchVenuesPage(resp) /\ twin' = SearchVenuesPageOf(twin, resp)
       /\ UNCHANGED <<limVars, apiVars, mainVars, lookVars, normVars>>

SpecTwin == InitTwin /\ [][NextTwin]_vars

\* validate_input applied to a config.
InitValidate ==
    /\ RateLimiterInit /\ interval = 1 /\ ApiInit /\ PagerIdle
    /\ \E c \in Configs : MainState(c, FALSE, FALSE, 0, "start")
    /\ LookupIdle /\ NormalizerIdle
    /\ RequestIdle

NextValidate ==
    MainValidate /\ UNCHANGED <<limVars, apiVars, pagVars, lookVars, normVars>>

SpecValidate == InitValidate /\ [][NextValidate]_vars

\* One run of main(); of the scraper it sees the records scraper.run() yields.
InitMain ==
    /\ RateLimiterInit /\ interval = 1 /\ ApiInit /\ PagerIdle
    /\ MainInit /\ LookupIdle /\ NormalizerIdle
    /\ RequestIdle

NextMain ==
    \/ MainValidate /\ UNCHANGED <<limVars, apiVars, pagVars, lookVars, normVars>>
    \/ MainSetUp /\ UNCHANGED <<limVars, apiVars, pagVars, lookVars, normVars>>
    \/ /\ \E ends \in BOOLEAN, calls \in {0, 1} : MainPull(ends, calls)
       /\ UNCHANGED <<limVars, apiVars, pagVars, lookVars, normVars>>
    \/ MainFlush /\ UNCHANGED <<limVars, apiVars, pagVars, lookVars, normVars>>

SpecMain == InitMain /\ [][NextMain]_vars

\* One run of _get_event, its _api_request call answered by the server as it
\* likes.
InitLookup ==
    /\ RateLimiterInit /\ interval = 1 /\ ApiInit /\ PagerIdle
    /\ \E c \in LookupConfigs : MainState(c, FALSE, FALSE, 0, "idle")
    /\ LookupInit /\ NormalizerIdle
    /\ RequestInit(EventEndpoint(Strip(config.event_id)), NoParams)

NextLookup ==
    \/ GetEventCall /\ UNCHANGED <<limVars, apiVars, pagVars, mainVars, normVars>>
    \/ gpc = "await" /\ ApiLoop /\ UNCHANGED <<pagVars, mainVars, lookVars, normVars>>
    \/ /\ gpc = "await" /\ WaitWake(ApiTask)
       /\ UNCHANGED <<apiVars, pagVars, mainVars, lookVars, normVars>>
    \/ /\ gpc = "await" /\ WaitMark(ApiTask)
       /\ UNCHANGED <<apiVars, pagVars, mainVars, lookVars, normVars>>
    \/ gpc = "await" /\ ApiSend /\ UNCHANGED <<pagVars, mainVars, lookVars, normVars>>
    \/ /\ gpc = "await" /\ \E r \in Outcomes : ApiReceive(r)
       /\ UNCHANGED <<pagVars, mainVars, lookVars, normVars>>
    \/ gpc = "await" /\ ApiBackoffDone /\ UNCHANGED <<pagVars, mainVars, lookVars, normVars>>
    \/ /\ \E b \in LookupBodies : GetEventResume(b)
       /\ UNCHANGED <<limVars, apiVars, pagVars, mainVars, normVars>>

SpecLookup == InitLookup /\ [][NextLookup]_vars

\* One call of a normalizer on a provider object.
InitNormalizer ==
    /\ RateLimiterInit /\ interval = 1 /\ ApiInit /\ PagerIdle
    /\ MainIdle /\ LookupIdle /\ NormalizerInit
    /\ RequestIdle

NextNormalizer ==
    \/ EventToRecordCall /\ UNCHANGED <<limVars, apiVars, pagVars, mainVars, lookVars>>
    \/ VenueToRecordCall /\ UNCHANGED <<limVars, apiVars, pagVars, mainVars, lookVars>>

SpecNormalizer == InitNormalizer /\ [][NextNormalizer]_vars

(***************************************************************************)
(* Claims about _api_request and the RateLimiter                           *)
(***************************************************************************)
Is429(r) == r.kind = "response" /\ r.status = 429
All429 == \A i \in 1..Len(responses) : Is429(responses[i])

\* C1: when the server answers 429 to every attempt, a call of _api_request
\* issues exactly 4 HTTP attempts, sleeps exactly 3 times (not after the 4th
\* attempt) and returns Failure.
C1_FourAttemptsOn429 ==
    All429 =>
        /\ Len(getMarks) <= 4
        /\ Len(sleeps) <= 3
        /\ apc = "returned" =>
              /\ Len(getMarks) = 4
              /\ Len(responses) = 4
              /\ Len(sleeps) = 3
              /\ result = Failure

C1_Witness ==
    /\ apc = "returned"
    /\ Len(responses) = 4
    /\ All429
    /\ sleeps = <<5, 15, 30>>

\* C2: a transport failure, a 401 or a 400 on any attempt ends the call with
\* Failure at once, with no further HTTP attempt, wait or backoff sleep; only
\* a 429 response is ever followed by another attempt.
EndsCall(r) == r.kind = "error" \/ (r.kind = "response" /\ r.status \in {401, 400})

C2_OnlyRetryOn429 ==
    /\ \A i \in 1..Len(responses) :
          Len(getMarks) > i => Is429(responses[i])
    /\ \A i \in 1..Len(responses) :
          (Len(sleeps) >= i \/ (i = Len(responses) /\ apc # "returned"))
              => Is429(responses[i])
    /\ (responses # <<>> /\ EndsCall(responses[Len(responses)])) =>
          /\ apc = "returned"
          /\ result = Failure
          /\ Len(getMarks) = Len(responses)
          /\ Len(sleeps) = Len(responses) - 1
          /\ lpc[ApiTask] = "idle"

C2_Witness ==
    /\ Len(responses) = 3
    /\ responses[3] = TransportError
    /\ apc = "returned"
    /\ result = Failure

\* C3: the instants recorded as last-request mark by successive wait() calls
\* of any callers are at least the interval apart, and at most one caller is
\* inside the critical section at a time.
InCritical == {c \in Callers : lpc[c] \in {"sleeping", "mark"}}

C3_PacedAndExclusive ==
    /\ \A i \in 1..(Len(marks) - 1) : marks[i + 1] - marks[i] >= interval
    /\ Cardinality(InCritical) <= 1
    /\ \A c \in InCritical : lockHolder = c

C3_Witness ==
    /\ Len(marks) >= 2
    /\ \E c \in Callers : lpc[c] = "sleeping"
    /\ Len(lockWaiters) >= 1

\* C4: every HTTP GET of a call, the first and each retry, is issued after a
\* wait() of its own has completed: the i-th GET is sent when exactly i wait()
\* calls have returned.
C4_WaitBeforeEachGet ==
    /\ \A i \in 1..Len(getMarks) : getMarks[i] = i
    /\ Len(marks) <= Len(getMarks) + 1

C4_Witness ==
    /\ Len(getMarks) = 4
    /\ Len(marks) = 4
    /\ Len(sleeps) = 3

(***************************************************************************)
(* Claims about the search paginators                                      *)
(***************************************************************************)
\* C5: against the provider that serves (size s, page p) as the results
\* s*p .. s*p+s-1 of its ordered list, the k-th yielded record is the k-th
\* provider result: nothing is yielded twice, nothing is skipped.
C5_YieldsProviderOrder ==
    provider = "list" => \A k \in 1..Len(yielded) : yielded[k] = k - 1

\* C6: the number of records yielded never exceeds max_results, whatever the
\* length of the pages the provider returns; once the count has reached
\* max_results no page request is issued (none is in flight).
C6_NeverOverCap ==
    /\ Len(yielded) = total_yielded
    /\ total_yielded <= max_results
    /\ ppc = "await" => (request.before < max_results /\ total_yielded < max_results)
    /\ (stop = "cap") => total_yielded = max_results

C6_Witness ==
    /\ stop = "cap"
    /\ n_requests >= 2
    /\ request.before > 0
    /\ page = request.page
    /\ Len(yielded) = max_results

\* C7: every page request issued satisfies size * page < 1000; the paginator
\* stops at the guard exactly when min(200, remaining cap) * page >= 1000,
\* before issuing that request, and none follows.
C7_DeepPagingCeiling ==
    /\ n_requests > 0 => request.size * request.page < 1000
    /\ ppc = "await" => request.page = page
    /\ stop = "deep_paging" =>
          /\ ppc = "done"
          /\ Min(200, max_results - total_yielded) * page >= 1000
          /\ n_requests = page
          /\ request.page = page - 1

C7_Witness ==
    /\ stop = "deep_paging"
    /\ page = 5
    /\ request.size = 200
    /\ request.page = 4

\* C8: every page request carries size = min(200, max_results - records
\* yielded so far), so 1 <= size <= 200 and size is at most the remaining
\* cap; the page parameters of successive requests are 0, 1, 2, ...
C8_PageSizeAndIndex ==
    n_requests > 0 =>
        /\ request.size = Min(200, max_results - request.before)
        /\ 1 <= request.size /\ request.size <= 200
        /\ request.size <= max_results - request.before
        /\ request.page = n_requests - 1
        /\ ppc = "await" => request.before = total_yielded

C8_Witness ==
    /\ n_requests = 3
    /\ request.before = 399
    /\ request.size = 1
    /\ ppc = "await"

\* C9 as claimed: with a cap of at most the provider page size the paginator
\* requests size = cap on page 0 and issues exactly one page request,
\* whatever the provider reports.
C9_OneRequestUnderPageSize ==
    max_results <= 200 =>
        /\ n_requests <= 1
        /\ n_requests = 1 => (request.size = max_results /\ request.page = 0)

\* C9 as amended: with a cap of at most the provider page size the request
\* for page 0 carries size = cap, and a second request is issued only after a
\* page 0 that carried fewer records than the cap; a page 0 with at least cap
\* records ends the run after one request, whatever totalPages it reports.
C9_OneRequestWhenPageFull ==
    max_results <= 200 =>
        /\ n_requests = 1 => (request.size = max_results /\ request.page = 0)
        /\ n_requests >= 2 => (0 <= firstItems /\ firstItems < max_results)
        /\ firstItems >= max_results => (n_requests = 1 /\ ppc # "await")

C9_Witness ==
    /\ max_results = 150
    /\ firstItems = 150
    /\ request.size = 150
    /\ n_requests = 1
    /\ page = 1
    /\ stop = "cap"

\* C10: a 200 response without the _embedded key, or without the expected
\* collection key in it, ends the sequence with the records yielded so far
\* and no further request; on page 0 that is zero records and one request.
ExpectedKey == IF mode = "search" THEN "events" ELSE "venues"
LacksCollection(r) ==
    /\ r.kind = "response"
    /\ r.status = 200
    /\ (~r.embedded.present \/ ExpectedKey \notin r.embedded.keys)

C10_NoEmbeddedEndsSequence ==
    LacksCollection(reply) =>
        /\ ppc = "done"
        /\ stop = "no_results"
        /\ total_yielded = request.before
        /\ n_requests = request.page + 1
        /\ page = request.page
        /\ request.page = 0 => (yielded = <<>> /\ n_requests = 1)

C10_Witness ==
    /\ LacksCollection(reply)
    /\ ~reply.embedded.present
    /\ request.page = 0
    /\ n_requests = 1
    /\ yielded = <<>>
    /\ ppc = "done"

\* C11: a page request answered by Failure, or by a response whose status is
\* not 200, ends the sequence in the very step that receives it: that step
\* yields nothing, issues nothing, leaves the records of the earlier pages as
\* they were, and no step of the paginator follows it.
PageRefused(r) == r.kind = "failure" \/ (r.kind = "response" /\ r.status # 200)

C11_FailureEndsSequence ==
    [][/\ PageRefused(reply) => UNCHANGED pagVars
       /\ PageRefused(reply') =>
            /\ ppc' = "done"
            /\ stop' \in {"failed", "bad_status"}
            /\ yielded' = yielded
            /\ total_yielded' = total_yielded
            /\ n_requests' = n_requests
            /\ page' = page]_vars

C11_Witness ==
    /\ PageRefused(reply)
    /\ reply.kind = "response"
    /\ reply.status = 404
    /\ request.page = 1
    /\ n_requests = 2
    /\ total_yielded > 0
    /\ Len(yielded) = total_yielded
    /\ ppc = "done"

\* C12: the paginator stops after finitely many page requests whatever the
\* provider answers: every step of it strictly increases a counter of program
\* steps that never exceeds twice the deep-paging limit plus one, and no run
\* issues more than TM_DEEP_PAGE_LIMIT requests, also when every answer is a
\* 200 with an empty collection and a totalPages beyond the limit.
PagerSteps ==
    2 * n_requests + (IF ppc = "done" THEN 1 ELSE IF ppc = "await" THEN 0 - 1 ELSE 0)

C12_FiniteSequence ==
    /\ [](n_requests <= TM_DEEP_PAGE_LIMIT /\ PagerSteps <= 2 * TM_DEEP_PAGE_LIMIT + 1)
    /\ [][PagerSteps' > PagerSteps]_vars

C12_Witness ==
    /\ n_requests = TM_DEEP_PAGE_LIMIT
    /\ ppc = "done"
    /\ stop = "deep_paging"
    /\ total_yielded = 0
    /\ reply.kind = "response"
    /\ reply.status = 200
    /\ reply.embedded.present

\* C16: the sleep after the k-th 429 of a call (k = 0, 1, 2) is the Retry-After
\* value when the header is there and is a number, and the k-th entry of the
\* schedule 5, 15, 30 otherwise, k being the attempt number.
HeaderIsNumber(r) == r.retry_after # NoHeader /\ FloatParses(r.retry_after)

C16_BackoffDuration ==
    /\ Len(sleeps) <= 3
    /\ Len(sleeps) <= Len(responses)
    /\ \A k \in 0..(Len(sleeps) - 1) :
          /\ Is429(responses[k + 1])
          /\ sleeps[k + 1] = IF HeaderIsNumber(responses[k + 1])
                             THEN FloatOf(responses[k + 1].retry_after)
                             ELSE <<5, 15, 30>>[k + 1]

C16_Witness ==
    /\ Len(sleeps) = 3
    /\ responses[1].retry_after = "7"
    /\ responses[2].retry_after = "soon"
    /\ responses[3].retry_after = NoHeader
    /\ sleeps = <<7, 15, 30>>

\* C17: a response whose status is none of 401, 400, 429 ends the call on the
\* attempt that received it and is the call's result as received; a returned
\* response never has status 400, 401 or 429; and the call returns Failure
\* exactly after a transport error, a 401, a 400, or a 429 on the fourth attempt.
LastResponse == responses[Len(responses)]
PassedThrough(r) == r.kind = "response" /\ r.status \notin {401, 400, 429}

C17_ReturnedAsReceived ==
    /\ \A i \in 1..Len(responses) :
          PassedThrough(responses[i]) =>
              /\ i = Len(responses)
              /\ apc = "returned"
              /\ result = responses[i]
              /\ Len(sleeps) = i - 1
    /\ apc = "returned" =>
          /\ responses # <<>>
          /\ result.kind \in {"response", "failure"}
          /\ result.kind = "response" =>
                /\ result = LastResponse
                /\ result.status \notin {400, 401, 429}
          /\ result = Failure <=>
                \/ LastResponse.kind = "error"
                \/ LastResponse.status = 401
                \/ LastResponse.status = 400
                \/ (Is429(LastResponse) /\ Len(responses) = MAX_RETRIES + 1)

C17_Witness ==
    /\ apc = "returned"
    /\ Len(responses) = 3
    /\ LastResponse.status = 500
    /\ result = LastResponse
    /\ Len(sleeps) = 2

(***************************************************************************)
(* Claims about _get_event, main() and validate_input                      *)
(***************************************************************************)
\* C13: a single-event lookup calls _api_request once and yields one
\* placeholder record (the requested id, a non-empty name) on a 404, the one
\* normalized record of the response body on a 200, and nothing when the call
\* returned Failure (transport error, 401, 400, 429 on the last attempt) or a
\* response with another status; it never yields more than one record.
RequestedId == Strip(config.event_id)
CallFailed ==
    \/ LastResponse.kind = "error"
    \/ LastResponse.status \in {401, 400}
    \/ (Is429(LastResponse) /\ Len(responses) = MAX_RETRIES + 1)

C14_ValidateFirst ==
    /\ validation_error = NotEvaluated => net_requests = 0 /\ produced = 0
    /\ validation_error \notin {NotEvaluated, NoError} =>
          /\ mpc = "failed"
          /\ failed = validation_error
          /\ net_requests = 0
          /\ produced = 0
          /\ dataset = <<>>
          /\ state_total_pushed = persisted

C14_Witness ==
    /\ mpc = "failed"
    /\ config.mode = "search"
    /\ config.api_key = <<"k">>
    /\ failed = "Provide at least one search filter."
    /\ persisted = 10
    /\ state_total_pushed = 10

\* C15: in a run that found the persisted counter at 0, the dataset never
\* holds more records than the effective cap: min(max_results, 25) for a
\* hosted caller that does not pay, max_results otherwise; the scraper goes on
\* yielding against the configured max_results.
EffectiveCap ==
    IF is_at_home /\ ~is_paying THEN Min(config.max_results, 25) ELSE config.max_results

C15_DatasetWithinCap ==
    persisted = 0 =>
        /\ Len(dataset) <= EffectiveCap
        /\ state_total_pushed = Len(dataset)
        /\ produced <= config.max_results

C15_Witness ==
    /\ persisted = 0
    /\ is_at_home /\ ~is_paying
    /\ config.max_results > 25
    /\ mpc = "done"
    /\ Len(dataset) = 25
    /\ produced = 25

\* C18: validate_input returns None exactly for the configs with a non-blank
\* API key, a mode among search, get_event, venues, a non-blank event_id in
\* mode get_event, a non-blank filter in mode search and a unit among miles,
\* km; every other config gets a message. A value of whitespace only is blank.
NonBlank(text) == \E i \in 1..Len(text) : text[i] \notin {" ", "\t", "\n"}
ValidConfig(c) ==
    /\ NonBlank(c.api_key)
    /\ c.mode \in {"search", "get_event", "venues"}
    /\ c.mode = "get_event" => NonBlank(c.event_id)
    /\ c.mode = "search" =>
          \E f \in {"keyword", "city", "state_code", "country_code", "postal_code",
                    "latlong", "classification_name"} : NonBlank(c[f])
    /\ c.unit \in {"miles", "km"}

C18_ValidExactly ==
    validation_error # NotEvaluated =>
        /\ validation_error = NoError <=> ValidConfig(config)
        /\ validation_error # NoError <=> mpc = "failed"
        /\ validation_error # ""

C18_Witness ==
    /\ mpc = "failed"
    /\ config.api_key = <<" ", "k", " ">>
    /\ config.mode = "search"
    /\ config.keyword = <<" ">>
    /\ config.city = <<" ">>
    /\ config.unit = "km"
    /\ validation_error = "Provide at least one search filter."

(***************************************************************************)
(* Claims about the normalizers                                            *)
(***************************************************************************)
\* C19: _event_to_record and _venue_to_record return a record for every
\* object, whichever nested fields are missing, null or present; they never
\* raise.
C19_NormalizersTotal ==
    npc \notin {"idle", "call"} =>
        /\ npc = "returned"
        /\ record.kind = raw.kind

\* C20 (as stated): the record's image list has at most one URL per ratio,
\* each URL is that of an image of maximal width among all images of its
\* ratio, and the URLs are in order of descending width.
Normalized == npc = "returned" /\ raw.kind = "event" /\ raw.shape["images"] = "present"
WidestOf(candidates, i) ==
    \A j \in candidates : raw.images[j].ratio = raw.images[i].ratio
                              => raw.images[j].width <= raw.images[i].width
\* the URLs of the record are those of distinct-ratio images, each the widest
\* of the candidates of its ratio, widest first
PicksWidest(candidates) ==
    \E pick \in [1..Len(record.images) -> candidates] :
        /\ \A k \in 1..Len(record.images) :
              /\ raw.images[pick[k]].url = record.images[k]
              /\ WidestOf(candidates, pick[k])
        /\ \A k, l \in 1..Len(record.images) :
              k < l => /\ raw.images[pick[k]].ratio # raw.images[pick[l]].ratio
                       /\ raw.images[pick[k]].width >= raw.images[pick[l]].width

C20_WidestOfAllImages == Normalized => PicksWidest(1..Len(raw.images))

\* C20 (amended): the same, the widest image of a ratio being the widest of
\* those that have a non-empty URL; every ratio with such an image has its URL
\* in the list.
WithUrl == {i \in 1..Len(raw.images) : raw.images[i].url # ""}

C20_WidestWithUrl ==
    Normalized =>
        /\ PicksWidest(WithUrl)
        /\ Len(record.images) = Cardinality({raw.images[i].ratio : i \in WithUrl})

C20_Witness ==
    /\ Normalized
    /\ raw.images = << [ratio |-> "16_9", width |-> 100, url |-> "a"],
                       [ratio |-> "16_9", width |-> 800, url |-> "b"],
                       [ratio |-> "16_9", width |-> 400, url |-> "a"] >>
    /\ record.images = <<"b">>

\* C21: segment, genre and sub_genre of the record are "" when the name of
\* that classification in the first entry is "Undefined", missing or null, and
\* are the name as the provider gave it otherwise; the entries after the first
\* have no part in the record.
NameShown(container, name) ==
    IF raw.shape[container] = "missing" \/ name \in {MissingText, NullText, Undefined}
    THEN <<>>
    ELSE name
Classified ==
    /\ npc = "returned"
    /\ raw.kind = "event"
    /\ raw.shape["classifications"] = "present"

CallerParams(call) ==
    /\ call.endpoint = endpoint
    /\ \A k \in DOMAIN call.params \ {"apikey"} :
          k \in DOMAIN params /\ params[k] = call.params[k]
    /\ DOMAIN params = DOMAIN call.params \cup {"apikey"}

C22_ApiKeyOnEveryAttempt ==
    /\ Len(sent) = Len(getMarks)
    /\ \A i \in 1..Len(sent) :
          /\ "apikey" \in DOMAIN sent[i].params
          /\ sent[i].params["apikey"] = config.api_key
          /\ sent[i] = sent[1]
          /\ sent[i].url = Url(endpoint)
          /\ \E call \in ApiCalls :
                /\ CallerParams(call)
                /\ \A k \in DOMAIN call.params \ {"apikey"} :
                      sent[i].params[k] = call.params[k]

C22_Witness ==
    /\ Len(sent) = 4
    /\ Len(sleeps) = 3
    /\ endpoint = "venues.json"
    /\ config.api_key = <<" ", "k", " ">>
    /\ sent[4].params["apikey"] = <<" ", "k", " ">>
    /\ sent[4].params["size"] = "1"
    /\ sent[4].params["page"] = "3"

(***************************************************************************)
(* Claims about the sink and the persisted counter                         *)
(***************************************************************************)
\* C23: in a run that found the persisted counter at 0, every push_data call
\* appends between 1 and 25 records and the dataset is always the pushes put
\* end to end; when the run has ended the dataset is exactly the first
\* min(effective cap, n) records the scraper yielded (n the number yielded),
\* in order and each once, also when the last batch was only partly filled.
RECURSIVE SumOf(_)
SumOf(list) == IF list = <<>> THEN 0 ELSE Head(list) + SumOf(Tail(list))

FirstYielded(n) == [i \in 1..n |-> i]

C23_SinkIsPrefix ==
    (persisted = 0 /\ mpc \in {"pull", "flush", "done"}) =>
        /\ \A i \in 1..Len(pushes) : pushes[i] \in 1..25
        /\ SumOf(pushes) = Len(dataset)
        /\ dataset = FirstYielded(Len(dataset))
        /\ mpc = "done" => Len(dataset) = Min(EffectiveCap, produced)

C23_Witness ==
    /\ persisted = 0
    /\ mpc = "done"
    /\ ~is_at_home
    /\ config.max_results = MaxRecords
    /\ produced = 26
    /\ pushes = <<25, 1>>
    /\ Len(dataset) = 26

\* C24: the persisted counter state["total_pushed"] always equals the value
\* the run found plus the number of records the run has pushed to the dataset;
\* no step of the run decreases it; and a run that found it at or below the
\* effective cap never takes it above that cap.
CounterTracksSink ==
    /\ state_total_pushed = persisted + Len(dataset)
    /\ persisted <= EffectiveCap => state_total_pushed <= EffectiveCap

C24_CounterTracksSink ==
    /\ []CounterTracksSink
    /\ [][state_total_pushed' >= state_total_pushed]_vars

C24_Witness ==
    /\ mpc = "done"
    /\ persisted = 10
    /\ config.max_results = BATCH_SIZE - 1
    /\ produced = 24
    /\ pushes = <<14>>
    /\ state_total_pushed = 24

\* C25: after a run that was restarted with a persisted counter N > 0 against
\* the same provider results (the scraper yields again at least the N records
\* of the earlier run), the dataset (what the earlier run left in it followed
\* by what this run pushed) holds no record twice and at most the effective
\* cap of records.
Sink == SinkBefore(persisted) \o dataset

NoRepeats(list) == \A i, j \in 1..Len(list) : list[i] = list[j] => i = j

C25_NoRecordPushedAgain ==
    (persisted > 0 /\ mpc = "done" /\ produced >= persisted) =>
        /\ NoRepeats(Sink)
        /\ Len(Sink) <= Max(persisted, EffectiveCap)

(***************************************************************************)
(* Claims about the two paginators                                         *)
(***************************************************************************)
\* C26: _search_events and a run of _search_venues given the same max_results
\* and, reply by reply, the same outcome (failure, status, presence of the
\* collection key, item count, totalPages) are at every step at the same
\* position with the same page, the same number of requests issued, the same
\* size and page in the request issued last, the same number of records
\* yielded and, once ended, the same reason to end; they differ in the
\* endpoint. (_search_venues itself run beside its rendering as a function
\* agrees with it in the endpoint too.)
SameMachine ==
    /\ twin.ppc = ppc
    /\ twin.stop = stop
    /\ twin.page = page
    /\ twin.n_requests = n_requests
    /\ twin.size = request.size
    /\ twin.req_page = request.page
    /\ twin.total_yielded = total_yielded
    /\ twin.total_yielded = Len(yielded)

C26_SameStateMachine ==
    /\ SameMachine
    /\ (mode = "search" /\ n_requests > 0) =>
          request.endpoint = "events.json" /\ twin.endpoint = "venues.json"
    /\ mode = "venues" => twin.endpoint = request.endpoint

C26_Witness ==
    /\ mode = "search"
    /\ provider = "any"
    /\ max_results = 400
    /\ ppc = "done"
    /\ stop = "cap"
    /\ twin.stop = "cap"
    /\ twin.n_requests = 3
    /\ twin.size = 1
    /\ twin.total_yielded = 400

(***************************************************************************)
(* Claims about the RateLimiter under a fair scheduler                     *)
(***************************************************************************)
\* C27: with the event loop running every task that is ready, every wait()
\* call that has been made eventually returns; a caller returns by giving up
\* the lock it holds; and the lock goes to the callers in the order in which
\* they asked for it: a newcomer takes it only when nobody is queued, else the
\* first of the queue takes it, and the queue changes only by a newcomer
\* joining at its end or its first leaving it.
Waiting(c) == lpc[c] \in {"queued", "sleeping", "mark"}

ReleasesOnReturn ==
    \A c \in Callers :
        (lpc[c] # "returned" /\ lpc'[c] = "returned") =>
            lockHolder = c /\ lockHolder' = NoCaller

FifoEntry ==
    /\ \A c \in Callers :
          (lockHolder' = c /\ lockHolder # c) =>
              /\ lockHolder = NoCaller
              /\ \/ lpc[c] = "idle" /\ lockWaiters = <<>> /\ lockWaiters' = <<>>
                 \/ /\ lpc[c] = "queued"
                    /\ lockWaiters # <<>>
                    /\ Head(lockWaiters) = c
                    /\ lockWaiters' = Tail(lockWaiters)
    /\ lockWaiters' # lockWaiters =>
          \/ \E c \in Callers : lpc[c] = "idle" /\ lockWaiters' = Append(lockWaiters, c)
          \/ lockWaiters # <<>> /\ lockWaiters' = Tail(lockWaiters)
                /\ lockHolder' = Head(lockWaiters)

C27_EveryWaitReturns ==
    /\ \A c \in Callers : Waiting(c) ~> (lpc[c] = "returned")
    /\ [][ReleasesOnReturn /\ FifoEntry]_vars

C27_Witness ==
    /\ Len(entered) >= NumCallers
    /\ \A c \in Callers : \E i \in 1..Len(entered) : entered[i] = c
    /\ \A c \in Callers : lpc[c] = "returned"
    /\ entered[1] # 1
    /\ now > 0

=============================================================================
